---------------------------- MODULE Spec2Model ----------------------------
(***************************************************************************)
(* Model of the Memos Sync plugin (src/main.ts, the variant with the       *)
(* Authorization settings and the sync interval, lines 249-598).           *)
(*                                                                         *)
(* Encoding of strings that may hold "/": a sequence of segments, the      *)
(* result of split("/").  "F" is <<"F">>, "sub/q.png" is                   *)
(* <<"sub", "q.png">>, the empty string is <<"">> and "/memos/a.md" is     *)
(* <<"", "memos", "a.md">>.  Joining with "/" is concatenation.            *)
(*                                                                         *)
(* Absent optional numbers (lastSyncTime, createdAt, updatedAt) are 0: the *)
(* code only ever tests them for truthiness.                               *)
(***************************************************************************)
EXTENDS Integers, Sequences, FiniteSets, TLC

(***************************************************************************)
(* Bounds of the model.                                                    *)
(***************************************************************************)
MaxRuns == 2          \* sync invocations in one behaviour
MaxTicks == 1         \* clock advances in one behaviour
TickMs == 30000       \* milliseconds per clock advance
MaxNotes == 2         \* notes in the remote snapshot
MaxFiles == 2         \* attachments in the remote snapshot

MsPerSec == 1000      \* lastUpdated * 1000

(***************************************************************************)
(* Generic helpers.                                                        *)
(***************************************************************************)
Range(s) == {s[x] : x \in DOMAIN s}

RECURSIVE SetToSeq(_)
SetToSeq(S) ==
    IF S = {} THEN <<>>
    ELSE LET x == CHOOSE y \in S : TRUE IN <<x>> \o SetToSeq(S \ {x})

(***************************************************************************)
(* Settings.                                                               *)
(***************************************************************************)
FileNameFormat == {"id", "created_at", "updated_at", "title"}

Fields == {"auth", "folderToSync", "fileNameFormat", "interval", "lastSyncTime"}

NoAuth == [baseUrl |-> "", accessToken |-> "", openId |-> ""]

\* lastSyncTime is not a key of DEFAULT_SETTINGS: reading it gives undefined
DEFAULT_SETTINGS ==
    [auth |-> NoAuth, folderToSync |-> <<"Memos Sync">>,
     fileNameFormat |-> "id", interval |-> 0, lastSyncTime |-> 0]

\* Object.assign({}, DEFAULT_SETTINGS, await this.loadData())
MergeSettings(d) ==
    [f \in Fields |-> IF f \in DOMAIN d THEN d[f] ELSE DEFAULT_SETTINGS[f]]

(***************************************************************************)
(* Paths.                                                                  *)
(***************************************************************************)
\* obsidian normalizePath: drops empty segments (leading, trailing and
\* doubled slashes)
normalizePath(p) == SelectSeq(p, LAMBDA s : s # "")

Parent(p) == SubSeq(p, 1, Len(p) - 1)

\* `${folderToSync}/memos`
MemosFolder(folderToSync) == folderToSync \o <<"memos">>

\* `${folderToSync}/resources`
ResourcesFolder(folderToSync) == folderToSync \o <<"resources">>

(***************************************************************************)
(* File names of notes.                                                    *)
(***************************************************************************)
\* `${year}-${month}-${day}-${hours}-${minutes}` of a Date built from ms
\* since the epoch (UTC, dates within January 1970)
formatDateToFileFormat(ms) ==
    LET m == ms \div 60000
    IN  ToString(1970) \o "-" \o ToString(1) \o "-"
          \o ToString(1 + (m \div 1440)) \o "-"
          \o ToString((m \div 60) % 24) \o "-" \o ToString(m % 60)

\* getFileName(memo, format); t is Date.now() at the call
getFileName(memo, format, t) ==
    CASE format = "id" -> memo.id
      [] format = "created_at" ->
            formatDateToFileFormat(IF memo.createdAt # 0 THEN memo.createdAt ELSE t)
      [] format = "updated_at" ->
            formatDateToFileFormat(IF memo.updatedAt # 0 THEN memo.updatedAt ELSE t)
      [] format = "title" -> memo.title

\* `${folderToSync}/memos/${getFileName(memo, format)}.md`
MemoTarget_NoFolder(folderToSync, memo, format, t) ==
    <<"memos">> \o <<getFileName(memo, format, t) \o ".md">>

MemoTarget(folderToSync, memo, format, t) ==
    MemosFolder(folderToSync) \o <<getFileName(memo, format, t) \o ".md">>

\* `${folderToSync}/resources/${resource.filename}`
ResourceTarget(folderToSync, resource) ==
    ResourcesFolder(folderToSync) \o resource.filename

\* getNoteContent(memo)
getNoteContent(memo) == memo.body


(***************************************************************************)
(* Inputs: what the remote service and the vault may hold.                 *)
(***************************************************************************)
\* Remote notes: timestamps in epoch seconds, 0 when absent.  Notes a and b
\* share their title.
NoteA(updatedAt, isArchived) ==
    [id |-> "a", title |-> "t", createdAt |-> 30, updatedAt |-> updatedAt,
     isArchived |-> isArchived, body |-> "v1"]

NoteB ==
    [id |-> "b", title |-> "t", createdAt |-> 60030, updatedAt |-> 60090,
     isArchived |-> FALSE, body |-> "w1"]

NoteC ==
    [id |-> "c", title |-> "w", createdAt |-> 30, updatedAt |-> 30,
     isArchived |-> FALSE, body |-> "c1"]

\* Remote attachments: available tells whether getAttachmentContent yields
\* content for it
FileP(available) == [filename |-> <<"p.png">>, available |-> available, blob |-> "x1"]

FileQ == [filename |-> <<"sub", "q.png">>, available |-> TRUE, blob |-> "y1"]

FileR == [filename |-> <<"r.png">>, available |-> TRUE, blob |-> "r1"]

\* the note lists of a snapshot, up to MaxNotes notes
NoteLists ==
    LET as == {NoteA(0, FALSE), NoteA(30, FALSE), NoteA(90, FALSE), NoteA(30, TRUE)}
    IN  {<<x>> : x \in as}
        \cup (IF MaxNotes >= 2 THEN {<<x, NoteB>> : x \in as} ELSE {})
        \cup (IF MaxNotes >= 3 THEN {<<NoteA(30, FALSE), NoteB, NoteC>>} ELSE {})

\* the attachment lists of a snapshot, up to MaxFiles attachments
FileLists ==
    {<<>>} \cup {<<FileP(av)>> : av \in BOOLEAN}
        \cup (IF MaxFiles >= 2
              THEN {<<FileP(av), FileQ>> : av \in BOOLEAN} \cup {<<FileQ, FileP(TRUE)>>}
              ELSE {})
        \cup (IF MaxFiles >= 3 THEN {<<FileP(TRUE), FileQ, FileR>>} ELSE {})

Snapshots == [notes : NoteLists, files : FileLists]

NoSnapshot == [notes |-> <<>>, files |-> <<>>]

AuthChoices ==
    {NoAuth,
     [baseUrl |-> "u", accessToken |-> "", openId |-> ""],
     [baseUrl |-> "u", accessToken |-> "k", openId |-> ""]}

NoData == [f \in {} |-> 0]

\* contents of the plugin's data.json: nothing (fresh install) or a full record
\* (the empty folder name only with the default format and no watermark)
DataChoices ==
    {NoData}
    \cup [auth : AuthChoices, folderToSync : {<<"F">>},
          fileNameFormat : FileNameFormat, interval : {0},
          lastSyncTime : {0, 2 * TickMs}]
    \cup [auth : AuthChoices, folderToSync : {<<"">>},
          fileNameFormat : {"id"}, interval : {0}, lastSyncTime : {0}]

\* files a vault may hold under the sync folder f before a run
InitFileChoices(f) ==
    LET memoA == <<normalizePath(MemosFolder(f) \o <<"a.md">>), "v0">>
        memoZ == <<normalizePath(MemosFolder(f) \o <<"zz.md">>), "z0">>
        resP  == <<normalizePath(ResourcesFolder(f) \o <<"p.png">>), "x0">>
        resO  == <<normalizePath(ResourcesFolder(f) \o <<"old.png">>), "o0">>
    IN  {{}, {memoA, resP}, {memoA, memoZ, resP, resO}}

\* every ancestor folder of the normalized path p (the vault root excluded)
Ancestors(p) == {SubSeq(p, 1, n) : n \in 1..(Len(p) - 1)}

(***************************************************************************)
(* State.                                                                  *)
(***************************************************************************)
VARIABLES
    data,       \* the persisted settings (data.json)
    settings,   \* this.settings
    remote,     \* what readMemosFromOpenAPI returns when it succeeds
    vault,      \* files of the vault: normalized path -> content
    folders,    \* folders of the vault (normalized paths)
    pending,    \* adapter.write / writeBinary calls in flight (not awaited)
    ticks,      \* clock advances so far
    runs,       \* sync invocations so far
    pc,         \* the await point the current sync run is suspended at
    run,        \* local variables of the current sync run
    log,        \* what the current (or last) sync run has done
    other,      \* a second sync() call of the same plugin: its pc, run and log
    timer,      \* this.timer (0 is null)
    window,     \* the interval timers of the window: next id, armed timers
    life,       \* the plugin is "fresh", "loading", "loaded" or "unloaded"
    calls,      \* suspended onload / interval onChange callbacks, per await
    hist        \* history: how the previous run ended, the vault it left

vars == <<data, settings, remote, vault, folders, pending, ticks, runs, pc, run, log,
          other, timer, window, life, calls, hist>>

\* the state of the host around the sync run
hostVars == <<other, timer, window, life, calls, hist>>

\* Date.now()
Now == (2 + ticks) * TickMs

NoRun ==
    [auth |-> NoAuth, folderToSync |-> <<>>, lastSyncTime |-> 0,
     res |-> NoSnapshot, memos |-> <<>>, i |-> 0, j |-> 0,
     memosInAPI |-> <<>>, resourcesInAPI |-> <<>>, listed |-> <<>>, k |-> 0]

NoLog ==
    [status |-> "none", notices |-> <<>>, fetched |-> FALSE, fsOps |-> 0,
     writes |-> {}, binWrites |-> {}, removes |-> <<>>, created |-> <<>>,
     checks |-> {}, noContent |-> {}, saved |-> FALSE, data0 |-> NoData,
     gotRes |-> FALSE, wroteNotes |-> FALSE, listedMemos |-> FALSE,
     listedResources |-> FALSE, failedAt |-> "", now |-> 0,
     names |-> {}, folderChecks |-> <<>>, listed |-> {}]

\* no second sync() call
NoContext == [pc |-> "none", run |-> NoRun, log |-> NoLog]

\* no interval timer was ever set
NoTimers == [next |-> 1, armed |-> {}]

\* no callback is suspended
NoCalls == [onload |-> 0, saveSettings |-> 0, loadSettings |-> 0]

\* no run has been recorded
NoHist ==
    [status |-> "none", data0 |-> NoData, res0 |-> NoSnapshot,
     vault0 |-> <<>>, pending0 |-> {}]

\* the plugin is loaded (onload has returned) with the interval setting 0;
\* no sync() call has been made
Init ==
    /\ data \in DataChoices
    /\ settings = MergeSettings(data)
    /\ remote \in Snapshots
    /\ \E fs \in InitFileChoices(settings.folderToSync) :
          /\ vault = [p \in {e[1] : e \in fs} |-> (CHOOSE e \in fs : e[1] = p)[2]]
          /\ folders = UNION {Ancestors(e[1]) : e \in fs}
    /\ pending = {}
    /\ ticks = 0
    /\ runs = 0
    /\ pc = "idle"
    /\ run = NoRun
    /\ log = NoLog
    /\ other = NoContext
    /\ timer = 0
    /\ window = NoTimers
    /\ life = "loaded"
    /\ calls = NoCalls
    /\ hist = NoHist

\* time passes between two runs
Tick ==
    /\ pc = "idle"
    /\ ticks < MaxTicks
    /\ ticks' = ticks + 1
    /\ UNCHANGED <<data, settings, remote, vault, folders, pending, runs, pc, run, log>>
    /\ UNCHANGED hostVars

(***************************************************************************)
(* The vault adapter.                                                      *)
(***************************************************************************)
\* adapter.exists(p)
Exists(p) == normalizePath(p) \in DOMAIN vault \/ normalizePath(p) \in folders

\* vault.createFolder(p): the folder and its missing ancestors
FoldersWith(p) == folders \cup {normalizePath(p)} \cup Ancestors(normalizePath(p))

\* adapter.list(dir).files: the files directly in dir, each as dir + "/" + name
List(dir) ==
    SetToSeq({dir \o <<q[Len(q)]>> :
                q \in {x \in DOMAIN vault : Parent(x) = normalizePath(dir)}})

\* the vault's files after adapter.remove(p)
VaultWithout(p) == [q \in DOMAIN vault \ {normalizePath(p)} |-> vault[q]]

\* the vault's files after a write of content c to the normalized path p
VaultWith(p, c) == [q \in DOMAIN vault \cup {p} |-> IF q = p THEN c ELSE vault[q]]

(***************************************************************************)
(* sync(): the synchronous stretches between two awaits.                   *)
(***************************************************************************)
\* a slip: the seconds are compared with the milliseconds as they are
SkipNote_Seconds(memo, lastSyncTime) ==
    /\ lastSyncTime # 0
    /\ memo.updatedAt # 0
    /\ memo.updatedAt < lastSyncTime

\* lastSyncTime && lastUpdated && lastUpdated * 1000 < lastSyncTime
SkipNote(memo, lastSyncTime) ==
    /\ lastSyncTime # 0
    /\ memo.updatedAt # 0
    /\ memo.updatedAt * MsPerSec < lastSyncTime

\* res.notes.filter((i) => !i.metadata.isArchived)
FilterArchived(notes) == SelectSeq(notes, LAMBDA n : ~n.isArchived)

\* memos.forEach(...): the adapter.write calls the loop issues
NoteWrites(r, format, t) ==
    {[kind |-> "write", note |-> r.memos[x].id,
      path |-> normalizePath(MemoTarget(r.folderToSync, r.memos[x], format, t)),
      content |-> getNoteContent(r.memos[x])] :
        x \in {y \in DOMAIN r.memos : ~SkipNote(r.memos[y], r.lastSyncTime)}}

\* memosInAPI
MemosInAPI(r, format, t) ==
    [x \in DOMAIN r.memos |-> MemoTarget(r.folderToSync, r.memos[x], format, t)]

\* resourcesInAPI
ResourcesInAPI(r) ==
    [x \in DOMAIN r.res.files |-> ResourceTarget(r.folderToSync, r.res.files[x])]

\* the getFileName calls of one pass over the notes, with their results
NameCalls(r, format, t) ==
    {[note |-> r.memos[x].id, format |-> format,
      name |-> getFileName(r.memos[x], format, t)] : x \in DOMAIN r.memos}

\* for (const resource of res.files): the loop head for the i-th attachment;
\* past the last one the run goes on to the retained sets and the listing
EnterResourceLoop(r, i, format, t) ==
    IF i <= Len(r.res.files)
    THEN [pc |-> "existsResource", run |-> [r EXCEPT !.i = i, !.j = 0]]
    ELSE [pc |-> "listMemos",
          run |-> [r EXCEPT !.i = i, !.j = 0,
                            !.memosInAPI = MemosInAPI(r, format, t),
                            !.resourcesInAPI = ResourcesInAPI(r)]]

\* a slip: the folder loop is left out, the content is fetched at once
EnterFolderLoop_Skip(r, j) ==
    [pc |-> "getAttachmentContent", run |-> [r EXCEPT !.j = j]]

\* for (let i = 0; i < resourcePathSplitted.length - 1; i++): the loop head
\* for the j-th ancestor folder; past the last one the content is fetched
EnterFolderLoop(r, j) ==
    IF j <= Len(r.res.files[r.i].filename) - 1
    THEN [pc |-> "existsFolder", run |-> [r EXCEPT !.j = j]]
    ELSE [pc |-> "getAttachmentContent", run |-> [r EXCEPT !.j = j]]

\* the first index from k on of a listed file that is not in keep, 0 if none
NextStale(listed, keep, k) ==
    LET stale == {x \in k..Len(listed) : listed[x] \notin Range(keep)}
    IN  IF stale = {} THEN 0 ELSE CHOOSE x \in stale : \A y \in stale : x <= y

\* a slip: the catch block shows the success notice
Catch_SuccessNotice ==
    /\ pc' = "idle"
    /\ log' = [log EXCEPT !.status = "failed", !.failedAt = pc,
                          !.notices = Append(@, "succeeded")]

\* catch (e): the failure notice
Catch ==
    /\ pc' = "idle"
    /\ log' = [log EXCEPT !.status = "failed", !.failedAt = pc,
                          !.notices = Append(@, "failed")]

(***************************************************************************)
(* sync(): one action per await.                                           *)
(***************************************************************************)
\* sync(): await loadSettings(), the two configuration checks, the started
\* notice, the fetch is issued
Invoke ==
    /\ runs < MaxRuns
    /\ runs' = runs + 1
    /\ settings' = MergeSettings(data)
    /\ run' = [NoRun EXCEPT !.auth = settings'.auth,
                            !.folderToSync = settings'.folderToSync,
                            !.lastSyncTime = settings'.lastSyncTime]
    /\ LET l == [NoLog EXCEPT !.data0 = data, !.now = Now]
       IN  IF settings'.auth.baseUrl = ""
           THEN /\ pc' = "idle"
                /\ log' = [l EXCEPT !.status = "rejected", !.notices = <<"baseUrl">>]
           ELSE IF settings'.auth.accessToken = "" /\ settings'.auth.openId = ""
           THEN /\ pc' = "idle"
                /\ log' = [l EXCEPT !.status = "rejected",
                                    !.notices = <<"credentials">>]
           ELSE /\ pc' = "readMemosFromOpenAPI"
                /\ log' = [l EXCEPT !.status = "running", !.notices = <<"started">>,
                                    !.fetched = TRUE]
    /\ UNCHANGED <<data, remote, vault, folders, pending, ticks>>

\* sync() is invoked (ribbon icon or interval timer) while no other call of
\* it is suspended
SyncStart ==
    /\ pc = "idle"
    /\ other = NoContext
    /\ Invoke
    /\ UNCHANGED hostVars

\* const res = await readMemosFromOpenAPI(auth), then the archived filter
\* and the first existence check is issued
ReadMemos ==
    /\ pc = "readMemosFromOpenAPI"
    /\ \E ok \in BOOLEAN :
         IF ok
         THEN /\ run' = [run EXCEPT !.res = remote,
                                    !.memos = FilterArchived(remote.notes)]
              /\ pc' = "existsMemosFolder"
              /\ log' = [log EXCEPT !.gotRes = TRUE]
         ELSE /\ Catch
              /\ UNCHANGED run
    /\ UNCHANGED <<data, settings, remote, vault, folders, pending, ticks, runs>>
    /\ UNCHANGED hostVars

\* await adapter.exists(`${folderToSync}/memos`)
ExistsMemosFolder ==
    /\ pc = "existsMemosFolder"
    /\ \E ok \in BOOLEAN :
         IF ok
         THEN /\ pc' = IF Exists(MemosFolder(run.folderToSync))
                       THEN "existsResourcesFolder" ELSE "createMemosFolder"
              /\ log' = [log EXCEPT !.fsOps = @ + 1]
         ELSE Catch
    /\ UNCHANGED <<data, settings, remote, vault, folders, pending, ticks, runs, run>>
    /\ UNCHANGED hostVars

\* await vault.createFolder(`${folderToSync}/memos`)
CreateMemosFolder ==
    /\ pc = "createMemosFolder"
    /\ \E ok \in BOOLEAN :
         IF ok
         THEN /\ folders' = FoldersWith(MemosFolder(run.folderToSync))
              /\ pc' = "existsResourcesFolder"
              /\ log' = [log EXCEPT !.fsOps = @ + 1,
                           !.created = Append(@, MemosFolder(run.folderToSync))]
         ELSE /\ Catch
              /\ UNCHANGED folders
    /\ UNCHANGED <<data, settings, remote, vault, pending, ticks, runs, run>>
    /\ UNCHANGED hostVars

\* what follows the two folder checks without an await: the note write loop
\* and the head of the attachment loop
AfterFolders(fsLog) ==
    LET ws == NoteWrites(run, settings.fileNameFormat, Now)
        nx == EnterResourceLoop(run, 1, settings.fileNameFormat, Now)
    IN  /\ pending' = pending \cup {[kind |-> w.kind, path |-> w.path,
                                     content |-> w.content] : w \in ws}
        /\ log' = [fsLog EXCEPT !.writes = @ \cup ws, !.wroteNotes = TRUE,
                      !.names = @ \cup NameCalls(run, settings.fileNameFormat, Now)]
        /\ pc' = nx.pc
        /\ run' = nx.run

\* await adapter.exists(`${folderToSync}/resources`)
ExistsResourcesFolder ==
    /\ pc = "existsResourcesFolder"
    /\ \E ok \in BOOLEAN :
         IF ok
         THEN IF Exists(ResourcesFolder(run.folderToSync))
              THEN AfterFolders([log EXCEPT !.fsOps = @ + 1])
              ELSE /\ pc' = "createResourcesFolder"
                   /\ log' = [log EXCEPT !.fsOps = @ + 1]
                   /\ UNCHANGED <<pending, run>>
         ELSE /\ Catch
              /\ UNCHANGED <<pending, run>>
    /\ UNCHANGED <<data, settings, remote, vault, folders, ticks, runs>>
    /\ UNCHANGED hostVars

\* await vault.createFolder(`${folderToSync}/resources`)
CreateResourcesFolder ==
    /\ pc = "createResourcesFolder"
    /\ \E ok \in BOOLEAN :
         IF ok
         THEN /\ folders' = FoldersWith(ResourcesFolder(run.folderToSync))
              /\ AfterFolders([log EXCEPT !.fsOps = @ + 1,
                      !.created = Append(@, ResourcesFolder(run.folderToSync))])
         ELSE /\ Catch
              /\ UNCHANGED <<folders, pending, run>>
    /\ UNCHANGED <<data, settings, remote, vault, ticks, runs>>
    /\ UNCHANGED hostVars

\* the attachment the loop is at, and its target path
Resource == run.res.files[run.i]

ResourcePath == normalizePath(ResourceTarget(run.folderToSync, Resource))

\* a slip: the existence check is lost and every attachment is written
IsResourceExists_Never == FALSE

\* const isResourceExists = await adapter.exists(resourcePath)
IsResourceExists == Exists(ResourcePath)

\* await adapter.exists(resourcePath); if (isResourceExists) return.
\* log.checks keeps what the adapter answered.
ExistsResource ==
    /\ pc = "existsResource"
    /\ \E ok \in BOOLEAN :
         IF ok
         THEN IF IsResourceExists
              THEN /\ pc' = "idle"
                   /\ log' = [log EXCEPT !.status = "returned", !.fsOps = @ + 1,
                                !.checks = @ \cup {<<run.i, ResourcePath,
                                                      Exists(ResourcePath)>>}]
                   /\ UNCHANGED run
              ELSE LET nx == IF Len(Resource.filename) > 1
                             THEN EnterFolderLoop(run, 1)
                             ELSE [pc |-> "getAttachmentContent", run |-> run]
                   IN  /\ pc' = nx.pc
                       /\ run' = nx.run
                       /\ log' = [log EXCEPT !.fsOps = @ + 1,
                                    !.checks = @ \cup {<<run.i, ResourcePath,
                                                          Exists(ResourcePath)>>}]
         ELSE /\ Catch
              /\ UNCHANGED run
    /\ UNCHANGED <<data, settings, remote, vault, folders, pending, ticks, runs>>
    /\ UNCHANGED hostVars

\* `${folderToSync}/resources/${resourcePathSplitted.slice(0, i + 1).join("/")}`
FolderPath ==
    normalizePath(ResourcesFolder(run.folderToSync)
                    \o SubSeq(Resource.filename, 1, run.j))

\* const isFolderExists = await adapter.exists(folderPath)
ExistsFolder ==
    /\ pc = "existsFolder"
    /\ \E ok \in BOOLEAN :
         IF ok
         THEN LET nx == IF Exists(FolderPath)
                        THEN EnterFolderLoop(run, run.j + 1)
                        ELSE [pc |-> "createFolder", run |-> run]
              IN  /\ pc' = nx.pc
                  /\ run' = nx.run
                  /\ log' = [log EXCEPT !.fsOps = @ + 1,
                               !.folderChecks = Append(@, [idx |-> run.i,
                                  path |-> FolderPath, existed |-> Exists(FolderPath)])]
         ELSE /\ Catch
              /\ UNCHANGED run
    /\ UNCHANGED <<data, settings, remote, vault, folders, pending, ticks, runs>>
    /\ UNCHANGED hostVars

\* await vault.createFolder(folderPath)
CreateFolder ==
    /\ pc = "createFolder"
    /\ \E ok \in BOOLEAN :
         IF ok
         THEN LET nx == EnterFolderLoop(run, run.j + 1)
              IN  /\ folders' = FoldersWith(FolderPath)
                  /\ pc' = nx.pc
                  /\ run' = nx.run
                  /\ log' = [log EXCEPT !.fsOps = @ + 1,
                               !.created = Append(@, FolderPath)]
         ELSE /\ Catch
              /\ UNCHANGED <<folders, run>>
    /\ UNCHANGED <<data, settings, remote, vault, pending, ticks, runs>>
    /\ UNCHANGED hostVars

\* const resourceContent = await getAttachmentContent(resource, auth); without
\* content: return; else writeBinary is issued and the loop goes on
GetAttachmentContent ==
    /\ pc = "getAttachmentContent"
    /\ IF ~Resource.available
       THEN /\ pc' = "idle"
            /\ log' = [log EXCEPT !.status = "returned",
                                  !.noContent = @ \cup {run.i}]
            /\ UNCHANGED <<pending, run>>
       ELSE LET nx == EnterResourceLoop(run, run.i + 1, settings.fileNameFormat, Now)
            IN  /\ pending' = pending \cup {[kind |-> "writeBinary",
                                  path |-> ResourcePath, content |-> Resource.blob]}
                /\ log' = [log EXCEPT !.binWrites = @ \cup
                             {[idx |-> run.i, path |-> ResourcePath,
                               content |-> Resource.blob]},
                             !.names = IF nx.pc = "listMemos"
                                       THEN @ \cup NameCalls(run,
                                                settings.fileNameFormat, Now)
                                       ELSE @]
                /\ pc' = nx.pc
                /\ run' = nx.run
    /\ UNCHANGED <<data, settings, remote, vault, folders, ticks, runs>>
    /\ UNCHANGED hostVars

\* new Notice("Successfully synced memos.") and
\* this.saveData({...this.settings, lastSyncTime: Date.now()})
Succeed(l) ==
    /\ pc' = "idle"
    /\ log' = [l EXCEPT !.status = "succeeded", !.saved = TRUE,
                        !.notices = Append(@, "succeeded")]
    /\ data' = [settings EXCEPT !.lastSyncTime = Now]

\* const memosInVault = await adapter.list(`${folderToSync}/memos`)
ListMemos ==
    /\ pc = "listMemos"
    /\ \E ok \in BOOLEAN :
         IF ok
         THEN LET listed == List(MemosFolder(run.folderToSync))
                  k == NextStale(listed, run.memosInAPI, 1)
              IN  /\ run' = [run EXCEPT !.listed = listed, !.k = k]
                  /\ pc' = IF k = 0 THEN "listResources" ELSE "removeMemo"
                  /\ log' = [log EXCEPT !.fsOps = @ + 1, !.listedMemos = TRUE,
                                        !.listed = @ \cup Range(listed)]
         ELSE /\ Catch
              /\ UNCHANGED run
    /\ UNCHANGED <<data, settings, remote, vault, folders, pending, ticks, runs>>
    /\ UNCHANGED hostVars

\* await adapter.remove(memo)
RemoveMemo ==
    /\ pc = "removeMemo"
    /\ \E ok \in BOOLEAN :
         IF ok
         THEN LET k == NextStale(run.listed, run.memosInAPI, run.k + 1)
              IN  /\ vault' = VaultWithout(run.listed[run.k])
                  /\ run' = [run EXCEPT !.k = k]
                  /\ pc' = IF k = 0 THEN "listResources" ELSE "removeMemo"
                  /\ log' = [log EXCEPT !.fsOps = @ + 1,
                               !.removes = Append(@, run.listed[run.k])]
         ELSE /\ Catch
              /\ UNCHANGED <<vault, run>>
    /\ UNCHANGED <<data, settings, remote, folders, pending, ticks, runs>>
    /\ UNCHANGED hostVars

\* const resourcesInVault = await adapter.list(`${folderToSync}/resources`)
ListResources ==
    /\ pc = "listResources"
    /\ \E ok \in BOOLEAN :
         IF ok
         THEN LET listed == List(ResourcesFolder(run.folderToSync))
                  k == NextStale(listed, run.resourcesInAPI, 1)
                  l == [log EXCEPT !.fsOps = @ + 1, !.listedResources = TRUE,
                                   !.listed = @ \cup Range(listed)]
              IN  /\ run' = [run EXCEPT !.listed = listed, !.k = k]
                  /\ IF k = 0
                     THEN Succeed(l)
                     ELSE /\ pc' = "removeResource"
                          /\ log' = l
                          /\ UNCHANGED data
         ELSE /\ Catch
              /\ UNCHANGED <<run, data>>
    /\ UNCHANGED <<settings, remote, vault, folders, pending, ticks, runs>>
    /\ UNCHANGED hostVars

\* await adapter.remove(resource)
RemoveResource ==
    /\ pc = "removeResource"
    /\ \E ok \in BOOLEAN :
         IF ok
         THEN LET k == NextStale(run.listed, run.resourcesInAPI, run.k + 1)
                  l == [log EXCEPT !.fsOps = @ + 1,
                          !.removes = Append(@, run.listed[run.k])]
              IN  /\ vault' = VaultWithout(run.listed[run.k])
                  /\ run' = [run EXCEPT !.k = k]
                  /\ IF k = 0
                     THEN Succeed(l)
                     ELSE /\ pc' = "removeResource"
                          /\ log' = l
                          /\ UNCHANGED data
         ELSE /\ Catch
              /\ UNCHANGED <<vault, run, data>>
    /\ UNCHANGED <<settings, remote, folders, pending, ticks, runs>>
    /\ UNCHANGED hostVars

(***************************************************************************)
(* The environment.                                                        *)
(***************************************************************************)
\* a write that was issued and not awaited settles, in any order and at any
\* later time: the file is written, or (the parent folder is missing) the
\* promise is rejected and .catch logs it.  A write rejected for another
\* reason changes nothing either: for the vault it is a write that never
\* settles.
CompleteWrite ==
    /\ \E w \in pending :
         /\ pending' = pending \ {w}
         /\ vault' = IF Len(w.path) = 1 \/ Parent(w.path) \in folders
                     THEN VaultWith(w.path, w.content) ELSE vault
    /\ UNCHANGED <<data, settings, remote, folders, ticks, runs, pc, run, log>>
    /\ UNCHANGED hostVars

\* what the user may type into the "Folder to sync" field
FolderInputs == {<<"">>, <<"F">>}

\* the settings tab, "Folder to sync" onChange(value): the empty name is
\* refused with a notice, any other name is set and this.settings is saved
OnChangeFolder(inputs) ==
    /\ \E value \in inputs :
         IF value = <<"">>
         THEN UNCHANGED <<settings, data>>
         ELSE /\ settings' = [settings EXCEPT !.folderToSync = value]
              /\ data' = settings'
    /\ UNCHANGED <<remote, vault, folders, pending, ticks, runs, pc, run, log>>
    /\ UNCHANGED hostVars

\* the folder is changed between two runs
OnChangeFolderToSync ==
    /\ pc = "idle"
    /\ OnChangeFolder(FolderInputs)

Next ==
    \/ Tick
    \/ OnChangeFolderToSync
    \/ SyncStart
    \/ ReadMemos
    \/ ExistsMemosFolder
    \/ CreateMemosFolder
    \/ ExistsResourcesFolder
    \/ CreateResourcesFolder
    \/ ExistsResource
    \/ ExistsFolder
    \/ CreateFolder
    \/ GetAttachmentContent
    \/ ListMemos
    \/ RemoveMemo
    \/ ListResources
    \/ RemoveResource
    \/ CompleteWrite

Spec == Init /\ [][Next]_vars


(***************************************************************************)
(* The plugin among the events of its host: the clock, the remote service, *)
(* the settings tab and the triggers of sync() do not wait for a run to    *)
(* end.  Each kind of event has its specification, over a small set of     *)
(* initial states.                                                         *)
(***************************************************************************)
MaxLate == 1          \* clock advances while a run is suspended

\* an attachment two folders deep
FileS == [filename |-> <<"sub", "dir", "s.png">>, available |-> TRUE, blob |-> "s1"]

\* a configured plugin that syncs into F
HostData(formats, watermarks) ==
    [auth : {[baseUrl |-> "u", accessToken |-> "k", openId |-> ""]},
     folderToSync : {<<"F">>}, fileNameFormat : formats,
     interval : {0}, lastSyncTime : watermarks]

\* files a vault may hold before a run: none, or under F a note file, a
\* stale note file, a stale attachment and an attachment in a subfolder,
\* and two files of the user outside F/memos and F/resources
HostFileChoices ==
    LET memoA == <<<<"F", "memos", "a.md">>, "v1">>
        memoZ == <<<<"F", "memos", "zz.md">>, "z0">>
        resK  == <<<<"F", "resources", "sub", "k.png">>, "k0">>
        resO  == <<<<"F", "resources", "old.png">>, "o0">>
        userN == <<<<"n.md">>, "n0">>
        userX == <<<<"F", "x.md">>, "x0">>
    IN  {{}, {memoA, memoZ, resK, resO, userN, userX}}

\* the loaded plugin, no sync() call made, with one of the given settings,
\* snapshots and vaults
HostInit(datas, snapshots, trees) ==
    /\ data \in datas
    /\ settings = MergeSettings(data)
    /\ remote \in snapshots
    /\ \E fs \in trees :
          /\ vault = [p \in {e[1] : e \in fs} |-> (CHOOSE e \in fs : e[1] = p)[2]]
          /\ folders = UNION {Ancestors(e[1]) : e \in fs}
    /\ pending = {}
    /\ ticks = 0
    /\ runs = 0
    /\ pc = "idle"
    /\ run = NoRun
    /\ log = NoLog
    /\ other = NoContext
    /\ timer = 0
    /\ window = NoTimers
    /\ life = "loaded"
    /\ calls = NoCalls
    /\ hist = NoHist

\* sync() is invoked while no other call of it is suspended; the history
\* keeps how the previous run ended and what the new run finds
SyncFrom ==
    /\ pc = "idle"
    /\ other = NoContext
    /\ Invoke
    /\ hist' = [status |-> log.status, data0 |-> log.data0, res0 |-> run.res,
                vault0 |-> vault, pending0 |-> pending]
    /\ UNCHANGED <<other, timer, window, life, calls>>

\* the steps of a sync run after its start, and the writes it left behind
SyncSteps ==
    \/ ReadMemos
    \/ ExistsMemosFolder
    \/ CreateMemosFolder
    \/ ExistsResourcesFolder
    \/ CreateResourcesFolder
    \/ ExistsResource
    \/ ExistsFolder
    \/ CreateFolder
    \/ GetAttachmentContent
    \/ ListMemos
    \/ RemoveMemo
    \/ ListResources
    \/ RemoveResource
    \/ CompleteWrite

(***************************************************************************)
(* The clock and the remote service.                                       *)
(***************************************************************************)
\* time passes while a run is suspended at an await
Advance ==
    /\ pc # "idle"
    /\ ticks < MaxTicks + MaxLate
    /\ ticks' = ticks + 1
    /\ UNCHANGED <<data, settings, remote, vault, folders, pending, runs, pc, run, log>>
    /\ UNCHANGED hostVars

\* the remote service: the first note is edited, its updatedAt becomes the
\* current time in seconds
RemoteUpdate ==
    /\ remote.notes[1].body = "v1"
    /\ remote' = [remote EXCEPT !.notes[1].body = "v2",
                                !.notes[1].updatedAt = Now \div MsPerSec]
    /\ UNCHANGED <<data, settings, vault, folders, pending, ticks, runs, pc, run, log>>
    /\ UNCHANGED hostVars

InitClock ==
    HostInit(HostData({"id", "updated_at"}, {0}),
             [notes : {<<NoteA(0, FALSE)>>}, files : {<<>>, <<FileS>>}],
             HostFileChoices)

NextClock ==
    \/ Tick
    \/ Advance
    \/ RemoteUpdate
    \/ SyncFrom
    \/ SyncSteps

SpecClock == InitClock /\ [][NextClock]_vars

(***************************************************************************)
(* The settings tab.                                                       *)
(***************************************************************************)
\* what the user may pick in the "File name format" dropdown
FormatInputs == {"id", "title"}

\* the settings tab, "File name format" onChange(value), at any time: the
\* format of this.settings is set and this.settings is saved
OnChangeFileNameFormat ==
    /\ \E value \in FormatInputs :
         /\ settings' = [settings EXCEPT !.fileNameFormat = value]
         /\ data' = settings'
    /\ UNCHANGED <<remote, vault, folders, pending, ticks, runs, pc, run, log>>
    /\ UNCHANGED hostVars

\* what the user types into the "Folder to sync" field while a run may be
\* suspended
LateFolderInputs == {<<"">>, <<"G">>}

\* the folder is changed at any time
OnChangeFolderAnyTime == OnChangeFolder(LateFolderInputs)

\* a plugin whose base URL was not entered yet
Unconfigured ==
    [auth |-> NoAuth, folderToSync |-> <<"F">>, fileNameFormat |-> "id",
     interval |-> 0, lastSyncTime |-> 0]

InitTab ==
    HostInit(HostData({"id"}, {0, 2 * TickMs}) \cup {Unconfigured},
             [notes : {<<NoteA(30, FALSE)>>}, files : {<<FileS>>}],
             HostFileChoices)

NextTab ==
    \/ OnChangeFolderAnyTime
    \/ OnChangeFileNameFormat
    \/ SyncFrom
    \/ SyncSteps

SpecTab == InitTab /\ [][NextTab]_vars

(***************************************************************************)
(* Two calls of sync().                                                    *)
(***************************************************************************)
\* sync() is invoked (ribbon icon or interval timer) while another call of
\* it is suspended at an await: nothing in sync() looks for a run in
\* progress, the new call runs and the suspended one is set aside
SyncOverlap ==
    /\ pc # "idle"
    /\ other = NoContext
    /\ other' = [pc |-> pc, run |-> run, log |-> log]
    /\ Invoke
    /\ UNCHANGED <<timer, window, life, calls, hist>>

\* the event loop resumes the other of the two calls
Switch ==
    /\ other.pc \notin {"none", "idle"}
    /\ other' = [pc |-> pc, run |-> run, log |-> log]
    /\ pc' = other.pc
    /\ run' = other.run
    /\ log' = other.log
    /\ UNCHANGED <<data, settings, remote, vault, folders, pending, ticks, runs>>
    /\ UNCHANGED <<timer, window, life, calls, hist>>

InitOverlap ==
    HostInit(HostData({"id"}, {0}),
             [notes : {<<NoteA(30, FALSE)>>}, files : {<<FileS>>}],
             HostFileChoices)

NextOverlap ==
    \/ SyncFrom
    \/ SyncOverlap
    \/ Switch
    \/ SyncSteps

SpecOverlap == InitOverlap /\ [][NextOverlap]_vars

(***************************************************************************)
(* The periodic timer.                                                     *)
(***************************************************************************)
MaxTimers == 3        \* window.setInterval calls in one behaviour
MaxCalls == 2         \* interval onChange callbacks suspended at a time

MinutesToMs == 60 * MsPerSec      \* interval * 60 * 1000

\* what the user may pick in the "Sync interval" dropdown
IntervalInputs == {0, 5, 15}

\* a plugin that was constructed and not yet loaded; this.settings is not
\* set before the first loadSettings() and is not read before it either
InitTimer ==
    /\ data \in [auth : {NoAuth}, folderToSync : {<<"F">>}, fileNameFormat : {"id"},
                 interval : {0, 5}, lastSyncTime : {0}]
    /\ settings = DEFAULT_SETTINGS
    /\ remote = NoSnapshot
    /\ vault = <<>>
    /\ folders = {}
    /\ pending = {}
    /\ ticks = 0
    /\ runs = 0
    /\ pc = "idle"
    /\ run = NoRun
    /\ log = NoLog
    /\ other = NoContext
    /\ timer = 0
    /\ window = NoTimers
    /\ life = "fresh"
    /\ calls = NoCalls
    /\ hist = NoHist

\* registerSyncInterval() after its await this.loadSettings(): the timer in
\* this.timer is cleared, and with interval > 0 a new one is set, handed to
\* registerInterval and kept in this.timer.  The host clears a registered
\* timer when it unloads the plugin; one registered after the unload stays.
Register ==
    LET loaded == MergeSettings(data)
        kept == {t \in window.armed : timer = 0 \/ t.id # timer}
    IN  /\ settings' = loaded
        /\ IF loaded.interval > 0
           THEN /\ window' = [next |-> window.next + 1,
                              armed |-> kept \cup {[id |-> window.next,
                                           period |-> loaded.interval * MinutesToMs]}]
                /\ timer' = window.next
           ELSE /\ window' = [window EXCEPT !.armed = kept]
                /\ timer' = timer

\* the host enables the plugin: onload() calls registerSyncInterval(), which
\* is suspended at await this.loadSettings()
Onload ==
    /\ life = "fresh"
    /\ life' = "loading"
    /\ calls' = [calls EXCEPT !.onload = 1]
    /\ UNCHANGED <<data, settings, remote, vault, folders, pending, ticks, runs,
                   pc, run, log, other, timer, window, hist>>

\* onload() goes on after loadSettings(): the timer is registered, then the
\* ribbon icon and the settings tab are added
OnloadResume ==
    /\ calls.onload = 1
    /\ Register
    /\ calls' = [calls EXCEPT !.onload = 0]
    /\ life' = IF life = "loading" THEN "loaded" ELSE life
    /\ UNCHANGED <<data, remote, vault, folders, pending, ticks, runs,
                   pc, run, log, other, hist>>

\* the settings tab, "Sync interval" onChange(value): the interval of
\* this.settings is set and this.settings is saved; the callback is
\* suspended at await this.plugin.saveSettings()
OnChangeInterval ==
    /\ life = "loaded"
    /\ calls.saveSettings + calls.loadSettings < MaxCalls
    /\ window.next <= MaxTimers
    /\ \E value \in IntervalInputs :
         /\ settings' = [settings EXCEPT !.interval = value]
         /\ data' = settings'
    /\ calls' = [calls EXCEPT !.saveSettings = @ + 1]
    /\ UNCHANGED <<remote, vault, folders, pending, ticks, runs,
                   pc, run, log, other, timer, window, life, hist>>

\* the callback goes on after saveSettings(): registerSyncInterval() is
\* called and suspended at await this.loadSettings()
AfterSaveSettings ==
    /\ calls.saveSettings > 0
    /\ calls' = [calls EXCEPT !.saveSettings = @ - 1, !.loadSettings = @ + 1]
    /\ UNCHANGED <<data, settings, remote, vault, folders, pending, ticks, runs,
                   pc, run, log, other, timer, window, life, hist>>

\* the callback goes on after loadSettings(): the timer is registered
AfterLoadSettings ==
    /\ calls.loadSettings > 0
    /\ Register
    /\ calls' = [calls EXCEPT !.loadSettings = @ - 1]
    /\ UNCHANGED <<data, remote, vault, folders, pending, ticks, runs,
                   pc, run, log, other, life, hist>>

\* the host disables the plugin: onunload() is empty, the host clears the
\* timers handed to registerInterval so far
Onunload ==
    /\ life \in {"loading", "loaded"}
    /\ life' = "unloaded"
    /\ window' = [window EXCEPT !.armed = {}]
    /\ UNCHANGED <<data, settings, remote, vault, folders, pending, ticks, runs,
                   pc, run, log, other, timer, calls, hist>>

\* an armed timer fires: sync() is invoked
TimerFires ==
    /\ window.armed # {}
    /\ SyncStart

NextTimer ==
    \/ Onload
    \/ OnloadResume
    \/ OnChangeInterval
    \/ AfterSaveSettings
    \/ AfterLoadSettings
    \/ Onunload
    \/ TimerFires

SpecTimer == InitTimer /\ [][NextTimer]_vars

(***************************************************************************)
(* The claims.                                                             *)
(***************************************************************************)
\* the run has ended (sync() has returned or thrown into its catch)
RunEnded == pc = "idle" /\ log.status # "none"

\* the settings the run loaded when it started
Loaded == MergeSettings(log.data0)

\* the notes of the fetched snapshot, by archive flag
SnapshotNotes(isArchived) ==
    {n \in Range(run.res.notes) : n.isArchived = isArchived}

(***************************************************************************)
(* The retained sets and what is stale, for the run that has just ended.   *)
(***************************************************************************)
\* the sync() call returned without throwing after its fetch succeeded
EndedWithoutThrow == RunEnded /\ log.status \in {"returned", "succeeded"}

NoteTarget(n) ==
    normalizePath(MemoTarget(run.folderToSync, n, Loaded.fileNameFormat, log.now))

AttachmentTarget(r) == normalizePath(ResourceTarget(run.folderToSync, r))

\* target paths of the non-archived notes of the snapshot
RetainedMemos == {NoteTarget(n) : n \in SnapshotNotes(FALSE)}

\* target paths of the attachments of the snapshot
RetainedResources == {AttachmentTarget(r) : r \in Range(run.res.files)}

\* files directly under <folderToSync>/memos that are not retained
StaleMemos ==
    {p \in DOMAIN vault :
        /\ Parent(p) = normalizePath(MemosFolder(run.folderToSync))
        /\ p \notin RetainedMemos}

\* files directly under <folderToSync>/resources that are not retained
StaleResources ==
    {p \in DOMAIN vault :
        /\ Parent(p) = normalizePath(ResourcesFolder(run.folderToSync))
        /\ p \notin RetainedResources}

NoDuplicates(q) == \A x, y \in DOMAIN q : x # y => q[x] # q[y]

\* C1: watermark skip law.  In a run that has reached the note write loop,
\* a write is issued for a non-archived note of the snapshot if and only if
\* it is not the case that the watermark loaded at the start of the run is
\* set, the note's updatedAt is set and updatedAt * 1000 < lastSyncTime; no
\* note write is issued before the loop.
C1_WatermarkSkipLaw ==
    /\ ~log.wroteNotes => log.writes = {}
    /\ log.wroteNotes =>
         \A n \in SnapshotNotes(FALSE) :
            (\E w \in log.writes : w.note = n.id)
              <=> ~(/\ Loaded.lastSyncTime # 0
                    /\ n.updatedAt # 0
                    /\ n.updatedAt * 1000 < Loaded.lastSyncTime)

\* a run with a watermark has skipped one note and written, in the same
\* loop, a newer note and nothing else
C1_Witness ==
    /\ log.wroteNotes
    /\ Loaded.lastSyncTime # 0
    /\ \E n, m \in SnapshotNotes(FALSE) :
          /\ n.updatedAt # 0
          /\ n.updatedAt * 1000 < Loaded.lastSyncTime
          /\ m.updatedAt * 1000 >= Loaded.lastSyncTime
          /\ {w.note : w \in log.writes} = {m.id}

\* C2: deletion completeness.  When a run whose fetch succeeded has ended
\* (no adapter call having thrown), no file that is not retained is left
\* directly under <folderToSync>/memos or <folderToSync>/resources, and no
\* path was removed twice.
C2_DeletionCompleteness ==
    EndedWithoutThrow =>
        /\ StaleMemos = {}
        /\ StaleResources = {}
        /\ NoDuplicates(log.removes)

\* C3: the attachment write-or-skip is decided per attachment.  When a run
\* whose fetch succeeded has ended (no adapter call having thrown), every
\* attachment of the snapshot whose content can be fetched and whose target
\* path does not exist locally has had its writeBinary issued.
C3_PerAttachmentDecision ==
    EndedWithoutThrow =>
        \A x \in DOMAIN run.res.files :
            (/\ run.res.files[x].available
             /\ AttachmentTarget(run.res.files[x]) \notin DOMAIN vault)
              => \E w \in log.binWrites : w.idx = x

\* C4: attachment immutability.  For an attachment whose target path the
\* adapter reported as existing when the run checked it, the run issues no
\* writeBinary to that path.
C4_AttachmentImmutability ==
    \A c \in log.checks :
        c[3] => ~\E w \in log.binWrites : w.path = c[2] \/ w.idx = c[1]

\* a run has found an attachment present whose local content differs from
\* the remote content, and has ended
C4_Witness ==
    /\ RunEnded
    /\ \E c \in log.checks :
          /\ c[3]
          /\ c[2] \in DOMAIN vault
          /\ vault[c[2]] # run.res.files[c[1]].blob

\* C5: an attachment without content is not an error of the run.  A run
\* that got no content for an attachment has, when it ends, checked every
\* attachment of the snapshot, listed both folders, shown the success
\* notice and saved the watermark.
C5_NoContentIsNotAnError ==
    (RunEnded /\ log.noContent # {} /\ log.failedAt = "") =>
        /\ \A x \in DOMAIN run.res.files : \E c \in log.checks : c[1] = x
        /\ log.listedMemos /\ log.listedResources
        /\ log.notices = <<"started", "succeeded">>
        /\ log.saved

\* C6: archived filtering.  When a run whose fetch succeeded has ended (no
\* adapter call having thrown), for every archived note of the snapshot
\* whose target path is not also the target of a non-archived note: no
\* write was issued for it and no file is left at its target path.
C6_ArchivedFiltering ==
    EndedWithoutThrow =>
        \A n \in SnapshotNotes(TRUE) :
            NoteTarget(n) \notin RetainedMemos =>
                /\ ~\E w \in log.writes : w.note = n.id
                /\ NoteTarget(n) \notin DOMAIN vault

\* C7: remote-fetch error.  A run whose readMemosFromOpenAPI failed has
\* issued no write, no removal, no folder creation and no other adapter
\* call, has not saved the watermark (the persisted lastSyncTime is the one
\* it loaded), and has shown the started notice and then the failure notice.
C7_FetchError ==
    (RunEnded /\ log.fetched /\ ~log.gotRes) =>
        /\ log.status = "failed"
        /\ log.writes = {} /\ log.binWrites = {}
        /\ log.removes = <<>> /\ log.created = <<>>
        /\ log.fsOps = 0
        /\ ~log.saved
        /\ MergeSettings(data).lastSyncTime = Loaded.lastSyncTime
        /\ log.notices = <<"started", "failed">>

\* a second run, started with the watermark the first run saved, has failed
\* at the fetch while stale files are in the vault
C7_Witness ==
    /\ RunEnded /\ log.fetched /\ ~log.gotRes
    /\ runs = 2
    /\ log.data0 # NoData
    /\ log.data0.lastSyncTime # 0
    /\ DOMAIN vault # {}

\* the awaited adapter calls made for one entry (an attachment, one of its
\* folders, a stale file)
PerEntryOps ==
    {"existsResource", "existsFolder", "createFolder", "removeMemo", "removeResource"}

\* C8: per-entry I/O errors are not fatal.  A run in which an awaited
\* adapter call for one entry failed ends with the success notice, not the
\* failure notice, and saves the watermark.
C8_PerEntryErrorsNonFatal ==
    (RunEnded /\ log.gotRes /\ log.failedAt \in PerEntryOps) =>
        /\ log.notices = <<"started", "succeeded">>
        /\ log.saved

\* the configuration errors: no base URL, neither access token nor open ID,
\* an empty folder name
ConfigurationError(s) ==
    \/ s.auth.baseUrl = ""
    \/ s.auth.accessToken = "" /\ s.auth.openId = ""
    \/ s.folderToSync = <<"">>

\* C9: configuration errors fail fast.  A run that loaded settings with a
\* configuration error is rejected: it issues no fetch and no adapter call
\* and leaves the persisted lastSyncTime as it was.
C9_ConfigErrorsFailFast ==
    (log.status # "none" /\ ConfigurationError(Loaded)) =>
        /\ log.status = "rejected"
        /\ ~log.fetched
        /\ log.fsOps = 0
        /\ log.writes = {} /\ log.binWrites = {}
        /\ MergeSettings(data).lastSyncTime = Loaded.lastSyncTime

\* C10: the two collections are executed independently.  When a run ended
\* because the removal of a stale note file failed, no stale attachment
\* file is left; when a run ended at an attachment that was skipped, no
\* stale note file is left.
C10_ExecutionIndependence ==
    /\ (RunEnded /\ log.failedAt = "removeMemo") => StaleResources = {}
    /\ (RunEnded /\ log.status = "returned") => StaleMemos = {}

\* the success and failure notices the run has shown
OutcomeNotices ==
    {x \in DOMAIN log.notices : log.notices[x] \in {"succeeded", "failed"}}

\* C11: run outcome signalling.  A run that passed the configuration checks
\* and showed the started notice has, when it has ended, shown exactly one
\* of the success and failure notices; the success notice if and only if the
\* remote fetch succeeded; and with the success notice the watermark was
\* saved.
C11_RunOutcomeSignalling ==
    (RunEnded /\ log.fetched) =>
        /\ Cardinality(OutcomeNotices) = 1
        /\ ("succeeded" \in Range(log.notices)) <=> log.gotRes
        /\ ("succeeded" \in Range(log.notices)) => log.saved

\* C12: filename derivation determinism.  Within one run, two getFileName
\* calls for the same note of the snapshot with the same format (the one of
\* the write loop and the one that computes memosInAPI) return the same
\* name, also for a note whose createdAt / updatedAt is absent.
C12_FileNameDeterminism ==
    \A c, d \in log.names :
        (c.note = d.note /\ c.format = d.format) => c.name = d.name

\* the path p lies under the folder root
Under(p, root) == Len(p) > Len(root) /\ SubSeq(p, 1, Len(root)) = root

\* the files of v under <folderToSync>/memos and <folderToSync>/resources,
\* with their contents
Tree(v) ==
    LET ps == {p \in DOMAIN v :
                 \/ Under(p, normalizePath(MemosFolder(run.folderToSync)))
                 \/ Under(p, normalizePath(ResourcesFolder(run.folderToSync)))}
    IN  [p \in ps |-> v[p]]

\* the run that has just ended is the second of two runs in succession: the
\* first one succeeded and all its writes had completed, the second one
\* loaded the same folder and format and fetched the same snapshot, no call
\* of it threw, and its writes have completed too
SecondOfTwoRuns ==
    /\ EndedWithoutThrow
    /\ pending = {}
    /\ hist.status = "succeeded"
    /\ hist.pending0 = {}
    /\ hist.res0 = run.res
    /\ MergeSettings(hist.data0).folderToSync = Loaded.folderToSync
    /\ MergeSettings(hist.data0).fileNameFormat = Loaded.fileNameFormat

\* C13: idempotence.  The second of two runs in succession against an
\* unchanged snapshot removes no file and leaves the tree under
\* <folderToSync>/memos and <folderToSync>/resources as the first run left
\* it (same paths, same contents).
C13_Idempotence ==
    SecondOfTwoRuns =>
        /\ log.removes = <<>>
        /\ Tree(vault) = Tree(hist.vault0)

\* C14: single active run.  At no time are two calls of sync() both
\* suspended at an await.
C14_SingleActiveRun ==
    ~(pc # "idle" /\ other.pc \notin {"none", "idle"})

\* no onload or interval onChange callback is suspended
NoCallSuspended == calls = NoCalls

\* C15: periodic timer management.  At most one timer is armed at any time.
\* When no callback is suspended: an armed timer of the loaded plugin has
\* the period of the persisted interval, none is armed when the persisted
\* interval is 0, and none is armed after the plugin was unloaded.
C15_TimerManagement ==
    /\ Cardinality(window.armed) <= 1
    /\ (NoCallSuspended /\ life = "loaded") =>
          /\ \A t \in window.armed :
                t.period = MergeSettings(data).interval * 60 * 1000
          /\ MergeSettings(data).interval = 0 => window.armed = {}
    /\ (NoCallSuspended /\ life = "unloaded") => window.armed = {}

\* the paths the run has issued a write for (adapter.write, writeBinary)
WrittenPaths == {w.path : w \in log.writes} \cup {w.path : w \in log.binWrites}

\* the paths the run has removed (adapter.remove)
RemovedPaths == {normalizePath(p) : p \in Range(log.removes)}

\* C16: write/delete disjointness.  Within one run no path is both the
\* target of a write and the target of a removal.
C16_WriteDeleteDisjoint == WrittenPaths \cap RemovedPaths = {}

\* the ancestor folders <folderToSync>/resources/<prefix> of a target path
PrefixFolders(p) ==
    {a \in Ancestors(p) : Under(a, normalizePath(ResourcesFolder(run.folderToSync)))}

\* the entries of the sequence q for one attachment go from root to leaf
RootToLeaf(q) ==
    \A x, y \in DOMAIN q :
        (x < y /\ q[x].idx = q[y].idx) =>
            /\ Len(q[x].path) < Len(q[y].path)
            /\ q[x].path = SubSeq(q[y].path, 1, Len(q[x].path))

\* C17: directory ensure ordering.  Every ancestor folder
\* <folderToSync>/resources/<prefix> of a path a writeBinary was issued for
\* exists; the ancestors of one attachment are checked from root to leaf,
\* each is checked before the write is issued, and createFolder is called
\* for a checked folder only if the adapter answered that it did not exist.
C17_DirectoryEnsure ==
    /\ \A w \in log.binWrites :
          /\ PrefixFolders(w.path) \subseteq folders
          /\ PrefixFolders(w.path) =
                {c.path : c \in {d \in Range(log.folderChecks) : d.idx = w.idx}}
    /\ RootToLeaf(log.folderChecks)
    /\ \A c \in Range(log.folderChecks) :
          c.existed => c.path \notin Range(log.created)
    /\ \A p \in Range(log.created) :
          Under(p, normalizePath(ResourcesFolder(run.folderToSync))) =>
              \E c \in Range(log.folderChecks) : c.path = p /\ ~c.existed

\* a run has issued the writeBinary of sub/dir/s.png after it created
\* resources/sub and then resources/sub/dir
C17_Witness ==
    /\ \E w \in log.binWrites : Cardinality(PrefixFolders(w.path)) = 2
    /\ \E x, y \in DOMAIN log.created :
          /\ x < y
          /\ log.created[x] = <<"F", "resources", "sub">>
          /\ log.created[y] = <<"F", "resources", "sub", "dir">>

\* the notes of the fetched snapshot that carry the revision made by
\* RemoteUpdate
UpdatedNotes == {n \in SnapshotNotes(FALSE) : n.body = "v2"}

\* C18: no lost remote update.  When a run that fetched the new revision of
\* a note has succeeded and its writes have completed (no write of an
\* earlier run was in flight when it started), the local file of the note
\* holds the new revision.
C18_NoLostUpdate ==
    (RunEnded /\ log.status = "succeeded" /\ pending = {} /\ hist.pending0 = {}) =>
        \A n \in UpdatedNotes :
            /\ NoteTarget(n) \in DOMAIN vault
            /\ vault[NoteTarget(n)] = n.body

\* the files directly under <folderToSync>/memos
MemoFiles ==
    {p \in DOMAIN vault : Parent(p) = normalizePath(MemosFolder(run.folderToSync))}

\* the getFileName calls of the run all used the format it loaded
FormatKept == \A c \in log.names : c.format = Loaded.fileNameFormat

\* C19: the local tree matches the retained set.  When a run has succeeded
\* and all writes have completed (the format was not changed while it ran,
\* no write of an earlier run was in flight when it started), the files
\* directly under <folderToSync>/memos are the target paths of the
\* non-archived notes of the snapshot.
C19_TreeMatchesRetained ==
    (/\ RunEnded /\ log.status = "succeeded"
     /\ pending = {} /\ hist.pending0 = {} /\ FormatKept) =>
        MemoFiles = RetainedMemos


\* the two collection roots of the folder a run loaded when it started
RunRoots ==
    LET f == MergeSettings(log.data0).folderToSync
    IN  {normalizePath(MemosFolder(f)), normalizePath(ResourcesFolder(f))}

InRoots(p) == \E r \in RunRoots : Under(normalizePath(p), r)

\* a run that changes nothing: refused for its configuration, or ended by a
\* failed fetch
ChangesNothing ==
    \/ log.status = "rejected"
    \/ RunEnded /\ log.fetched /\ ~log.gotRes

=============================================================================
